---- MODULE Spec2Model ----
(***************************************************************************)
(* The Awkwardness Meter: the friction detector and base scorer of         *)
(* src/src/analysis.py, the /upload and /analyze handlers of src/app.py    *)
(* and the command-line run of src/main.py; and the text-to-speech         *)
(* websocket client of src/src/gradium_tts.py.                             *)
(*                                                                         *)
(* Units.  The code computes in floating point seconds.  Here every time   *)
(* is an integer number of ticks of 0.05 s (1.5 s = 30 ticks), a severity  *)
(* is in tenths (0.7 = 7), a percentage in tenths of a percent (61.9 % =   *)
(* 619), and every quotient is kept as an exact fraction [num, den] until  *)
(* the code truncates or rounds it.  Binary rounding error of the floats   *)
(* is not modelled.  Moment descriptions (formatted text) are left out.    *)
(*                                                                         *)
(* A text is a sequence of one-character strings.                          *)
(***************************************************************************)
EXTENDS Integers, Sequences, FiniteSets, TLC

VARIABLES
    program,        \* which entry point runs: "app" (src/app.py), "main" (src/main.py),
                    \* or "library": a caller of src/src/analysis.py
    SESSION_STORE,  \* app.py: job id -> session (its segments), in memory
    response,       \* app.py: the last response of POST /analyze
    cli,            \* main.py: outcome of the command-line run
    scorer,         \* library use: the calls of analyze_conversation on one list
    provider,       \* how the diarization behind the last pipeline.run went (not
                    \* a variable of the program: what really happened)
    tts             \* gradium_tts.py: one call of generate_audio_async, the
                    \* messages exchanged so far and the output file

vars == <<program, SESSION_STORE, response, cli, scorer, provider, tts>>

(***************************************************************************)
(* Bounds of the model.                                                    *)
(***************************************************************************)
MaxSegs == 3          \* longest conversation of the long and the overlapped inputs
MaxBoundarySegs == 2  \* longest conversation of the threshold inputs
MaxScenarioSegs == 4  \* longest conversation of the back-to-back inputs
MaxTtsMessages == 4   \* most messages the speech service sends in one exchange

(***************************************************************************)
(* Program constants, in model units.                                      *)
(***************************************************************************)
TicksPerSecond == 20        \* 1 s; the fallback total duration is 1 (second)
TH_SILENCE_AWKWARD == 30    \* 1.5 s
TH_SILENCE_PAINFUL == 60    \* 3.0 s
TH_OVERLAP_BAD == 4         \* 0.2 s
TH_FAST_LATCH == 3          \* 0.15 s
TH_SUBSTANTIAL == 20        \* 1.0 s
TH_AVG_GAP == 50            \* 2.5 s
TH_DOMINANCE == 600         \* 60 %
SEV_AWKWARD == 6            \* 0.6
SEV_PAINFUL == 9            \* 0.9
SEV_LEFT_HANGING == 10      \* 1.0
SEV_INTERRUPTION == 7       \* 0.7
REAL_QUESTION_WORDS == 3    \* more than 3 words
INTERRUPTION_POINTS == 5    \* 5 points per fast-latch interruption

(***************************************************************************)
(* Exact fractions.                                                        *)
(***************************************************************************)
RECURSIVE GCD(_, _)
GCD(a, b) == IF b = 0 THEN a ELSE GCD(b, a % b)

Abs(n) == IF n < 0 THEN -n ELSE n

\* the fraction n/d (d # 0) in lowest terms, with a positive denominator
Rat(n, d) ==
    LET g == GCD(Abs(n), Abs(d))
        sign == IF (n < 0) # (d < 0) THEN -1 ELSE 1
    IN  [num |-> sign * (Abs(n) \div g), den |-> Abs(d) \div g]
RatInt(n) == [num |-> n, den |-> 1]
RatAdd(a, b) == Rat(a.num * b.den + b.num * a.den, a.den * b.den)
RatLess(a, b) == a.num * b.den < b.num * a.den
RatEq(a, b) == a.num * b.den = b.num * a.den
RatMin(a, b) == IF RatLess(b, a) THEN b ELSE a

\* Python int(x): truncation toward zero.
PyInt(r) ==
    IF r.num >= 0 THEN r.num \div r.den ELSE -((-r.num) \div r.den)

\* Python round(x, k) of the exact value n/d scaled to the kept digit:
\* nearest integer, ties to even (n >= 0, d > 0).
PyRound(n, d) ==
    LET q == n \div d
        r == n % d
    IN  IF 2 * r > d \/ (2 * r = d /\ q % 2 = 1) THEN q + 1 ELSE q

RECURSIVE SumSeq(_)
SumSeq(s) == IF s = <<>> THEN 0 ELSE Head(s) + SumSeq(Tail(s))

RECURSIVE SelectIdx(_, _, _)
\* list comprehension [s[i] for i in order if i in keep]
SelectIdx(s, keep, i) ==
    IF i > Len(s) THEN <<>>
    ELSE (IF i \in keep THEN <<s[i]>> ELSE <<>>) \o SelectIdx(s, keep, i + 1)

MaxOf(S) == CHOOSE x \in S : \A y \in S : y <= x

(***************************************************************************)
(* Text operations.                                                        *)
(***************************************************************************)
SP == " "
QM == "?"

RECURSIVE LStrip(_)
LStrip(t) == IF t # <<>> /\ Head(t) = SP THEN LStrip(Tail(t)) ELSE t

RECURSIVE RStrip(_)
RStrip(t) ==
    IF t # <<>> /\ t[Len(t)] = SP THEN RStrip(SubSeq(t, 1, Len(t) - 1)) ELSE t

\* text = None: the utterance has no text (Segment.text is Optional[str])
None == <<"None">>

\* str.strip()
Strip(t) == RStrip(LStrip(t))

\* str.endswith('?')
EndsWithQM(t) == t # <<>> /\ t[Len(t)] = QM

\* '?' in text
ContainsQM(t) == \E i \in 1..Len(t) : t[i] = QM

\* len(text.split()): the number of maximal runs of non-blank characters
WordCount(t) ==
    Cardinality({i \in 1..Len(t) : t[i] # SP /\ (i = 1 \/ t[i - 1] = SP)})

(***************************************************************************)
(* Segment and the diarization result (src/src/utils.py, pipeline.py).     *)
(***************************************************************************)
Segment(start, end, speaker, text, is_question) ==
    [start |-> start, end |-> end, speaker |-> speaker, text |-> text,
     is_question |-> is_question]

AwkwardMoment(start, end, severity, label) ==
    [start |-> start, end |-> end, severity |-> severity, label |-> label]

\* PyannoteService.diarize, the turnLevelTranscription branch: one Segment per
\* turn, text stripped, is_question = the stripped text ends with '?'.
Diarize(turns) ==
    [i \in 1..Len(turns) |->
        Segment(turns[i].start, turns[i].end, turns[i].speaker,
                Strip(turns[i].text), EndsWithQM(Strip(turns[i].text)))]

(***************************************************************************)
(* AwkwardnessMeter (src/src/analysis.py).                                 *)
(***************************************************************************)
\* How a diarization can fail: pipeline.run finds no file; diarize has no
\* API key; _upload_file raises on a rejected upload; the job creation is
\* answered with another status than 200; _wait_for_job raises on a job
\* that ended failed or canceled; anything else raises (a malformed reply,
\* the network).
Failures ==
    {"file not found", "no api key", "upload rejected", "job rejected",
     "job failed", "job canceled", "exception"}

\* AwkwardPipeline.run(audio_path): what the caller receives.  Every failure
\* is printed and answered with the empty list.
run(outcome, turns) == IF outcome \in Failures THEN <<>> ELSE Diarize(turns)

\* mutant: a gap of exactly TH_SILENCE_AWKWARD counts as dead air
PairMoments_inclusive(current, next_seg) ==
    LET gap == next_seg.start - current.end
    IN  IF gap >= TH_SILENCE_AWKWARD
        THEN IF current.is_question
             THEN <<AwkwardMoment(current.end, next_seg.start,
                                  SEV_LEFT_HANGING, "Left Hanging (Vent)")>>
             ELSE IF gap > TH_SILENCE_PAINFUL
             THEN <<AwkwardMoment(current.end, next_seg.start,
                                  SEV_PAINFUL, "Painful Silence")>>
             ELSE <<AwkwardMoment(current.end, next_seg.start,
                                  SEV_AWKWARD, "Awkward Silence")>>
        ELSE IF gap < -TH_OVERLAP_BAD
        THEN IF WordCount(next_seg.text) > 1
             THEN <<AwkwardMoment(next_seg.start, current.end,
                                  SEV_INTERRUPTION, "Interruption")>>
             ELSE <<>>
        ELSE <<>>

\* mutant: the backchannel filter on the next text is dropped
PairMoments_no_backchannel_filter(current, next_seg) ==
    LET gap == next_seg.start - current.end
    IN  IF gap > TH_SILENCE_AWKWARD
        THEN IF current.is_question
             THEN <<AwkwardMoment(current.end, next_seg.start,
                                  SEV_LEFT_HANGING, "Left Hanging (Vent)")>>
             ELSE IF gap > TH_SILENCE_PAINFUL
             THEN <<AwkwardMoment(current.end, next_seg.start,
                                  SEV_PAINFUL, "Painful Silence")>>
             ELSE <<AwkwardMoment(current.end, next_seg.start,
                                  SEV_AWKWARD, "Awkward Silence")>>
        ELSE IF gap < -TH_OVERLAP_BAD
        THEN IF WordCount(next_seg.text) > 0
             THEN <<AwkwardMoment(next_seg.start, current.end,
                                  SEV_INTERRUPTION, "Interruption")>>
             ELSE <<>>
        ELSE <<>>

\* The body of the scan loop for one consecutive pair: the moments appended.
PairMoments(current, next_seg) ==
    LET gap == next_seg.start - current.end
    IN  IF gap > TH_SILENCE_AWKWARD
        THEN IF current.is_question
             THEN <<AwkwardMoment(current.end, next_seg.start,
                                  SEV_LEFT_HANGING, "Left Hanging (Vent)")>>
             ELSE IF gap > TH_SILENCE_PAINFUL
             THEN <<AwkwardMoment(current.end, next_seg.start,
                                  SEV_PAINFUL, "Painful Silence")>>
             ELSE <<AwkwardMoment(current.end, next_seg.start,
                                  SEV_AWKWARD, "Awkward Silence")>>
        ELSE IF gap < -TH_OVERLAP_BAD
        THEN IF WordCount(next_seg.text) > 1
             THEN <<AwkwardMoment(next_seg.start, current.end,
                                  SEV_INTERRUPTION, "Interruption")>>
             ELSE <<>>
        ELSE <<>>

RECURSIVE ScanFriction_backwards(_, _)
\* mutant: the pairs are scanned from the last to the first
ScanFriction_backwards(segments, i) ==
    IF i > Len(segments) - 1 THEN <<>>
    ELSE ScanFriction_backwards(segments, i + 1)
         \o PairMoments(segments[i], segments[i + 1])

RECURSIVE ScanFriction(_, _)
\* for i in range(len(segments) - 1), from pair i on
ScanFriction(segments, i) ==
    IF i > Len(segments) - 1 THEN <<>>
    ELSE PairMoments(segments[i], segments[i + 1]) \o ScanFriction(segments, i + 1)

\* mutant: every moment weighs one second, however long it lasts
total_awkward_time_per_moment(moments) == Len(moments) * TicksPerSecond * 10

\* mutant: the severity weight is forgotten (every moment weighs 1.0)
total_awkward_time_unweighted(moments) ==
    SumSeq([k \in 1..Len(moments) |-> (moments[k].end - moments[k].start) * 10])

\* sum((m.end - m.start) * m.severity), in tick-tenths
total_awkward_time(moments) ==
    SumSeq([k \in 1..Len(moments) |->
               (moments[k].end - moments[k].start) * moments[k].severity])

\* mutant: no fallback for the empty sequence
total_duration_no_fallback(segments) ==
    IF segments # <<>>
    THEN segments[Len(segments)].end - segments[1].start
    ELSE 0

\* segments[-1].end - segments[0].start if segments else 1, in ticks
total_duration(segments) ==
    IF segments # <<>>
    THEN segments[Len(segments)].end - segments[1].start
    ELSE 1 * TicksPerSecond

\* awkward_ratio = total_awkward_time / total_duration (seconds over seconds);
\* base_score = (awkward_ratio / 0.05) * 50.  Needs duration # 0.
base_score(awkward_time, duration) ==
    LET awkward_ratio == Rat(awkward_time, 10 * duration)
    IN  Rat(awkward_ratio.num * 20 * 50, awkward_ratio.den)

\* global_score = min(100, base_score), raised to 20 when moments exist
global_score(moments, duration) ==
    LET capped == RatMin(RatInt(100), base_score(total_awkward_time(moments), duration))
    IN  IF moments # <<>> /\ RatLess(capped, RatInt(20)) THEN RatInt(20) ELSE capped

_get_qualitative_label(score) ==
    IF RatLess(score, RatInt(20)) THEN "Smooth / In-Sync"
    ELSE IF RatLess(score, RatInt(50)) THEN "Slightly Frictioned"
    ELSE IF RatLess(score, RatInt(80)) THEN "Awkward"
    ELSE "Excruciating"

\* next_seg.text.split() is reached for a pair and next_seg.text is None
SplitRaises(current, next_seg) ==
    LET gap == next_seg.start - current.end
    IN  /\ ~(gap > TH_SILENCE_AWKWARD)
        /\ gap < -TH_OVERLAP_BAD
        /\ next_seg.text = None

\* The call raises AttributeError (None.split() in the scan), or
\* ZeroDivisionError (total_duration = 0), or returns the report
\* {score, label, moments}.
analyze_conversation(segments) ==
    LET moments == ScanFriction(segments, 1)
        duration == total_duration(segments)
    IN  IF \E i \in 1..(Len(segments) - 1) : SplitRaises(segments[i], segments[i + 1])
        THEN [raised |-> "AttributeError"]
        ELSE IF duration = 0
        THEN [raised |-> "ZeroDivisionError"]
        ELSE [raised |-> "",
              score |-> PyInt(global_score(moments, duration)),
              label |-> _get_qualitative_label(global_score(moments, duration)),
              moments |-> moments]

(***************************************************************************)
(* POST /analyze (src/app.py, analyze_with_names).                         *)
(***************************************************************************)
\* mapping[s.speaker].strip() is falsy: the new name is empty or blank
Blank(name) == name \in {"", " "}

\* for s in segments: if s.speaker in mapping and mapping[s.speaker].strip():
\*     s.speaker = mapping[s.speaker]
ApplyNames(segments, mapping) ==
    [i \in 1..Len(segments) |->
        IF segments[i].speaker \in DOMAIN mapping
           /\ ~Blank(mapping[segments[i].speaker])
        THEN [segments[i] EXCEPT !.speaker = mapping[segments[i].speaker]]
        ELSE segments[i]]

SpeakersOf(segments) == {segments[i].speaker : i \in 1..Len(segments)}

\* speakers_time[s.speaker] += s.end - s.start
speakers_time(segments) ==
    [spk \in SpeakersOf(segments) |->
        SumSeq([i \in 1..Len(segments) |->
                   IF segments[i].speaker = spk
                   THEN segments[i].end - segments[i].start ELSE 0])]

\* round((v / total_duration) * 100, 1), in tenths of a percent
speakers_pct(segments) ==
    [spk \in SpeakersOf(segments) |->
        PyRound(speakers_time(segments)[spk] * 100 * 10, total_duration(segments))]

\* mutant: a gap of exactly 0.15 s counts as a fast latch
IsFastLatch_inclusive(prev, curr) ==
    /\ curr.speaker # prev.speaker
    /\ curr.start - prev.end <= TH_FAST_LATCH
    /\ curr.end - curr.start > TH_SUBSTANTIAL

\* the fast-latch test of one consecutive pair (prev, curr)
IsFastLatch(prev, curr) ==
    /\ curr.speaker # prev.speaker
    /\ curr.start - prev.end < TH_FAST_LATCH
    /\ curr.end - curr.start > TH_SUBSTANTIAL

interruption_counts(segments) ==
    [spk \in SpeakersOf(segments) |->
        Cardinality({i \in 2..Len(segments) :
                        /\ segments[i].speaker = spk
                        /\ IsFastLatch(segments[i - 1], segments[i])})]

\* mutant: every moment of dead air counts, a question left hanging too
HasSilence_any_gap(label) ==
    label \in {"Awkward Silence", "Painful Silence", "Left Hanging (Vent)"}

\* "Silence" in m.label
HasSilence(label) == label \in {"Awkward Silence", "Painful Silence"}

\* gaps = [m for m in report['moments'] if "Silence" in m.label]
SilenceGaps(moments) ==
    SelectIdx(moments, {k \in 1..Len(moments) : HasSilence(moments[k].label)}, 1)

GapTicks(gaps) == SumSeq([k \in 1..Len(gaps) |-> gaps[k].end - gaps[k].start])

\* avg_gap, in ticks, as a fraction (0 when there is no gap)
avg_gap(gaps) == IF gaps # <<>> THEN Rat(GapTicks(gaps), Len(gaps)) ELSE RatInt(0)

\* '?' in s.text and len(s.text.split()) > 3
\* mutant: the question count follows the is_question flag
IsRealQuestion_by_flag(s) == s.is_question

\* '?' in s.text and len(s.text.split()) > 3
IsRealQuestion(s) == ContainsQM(s.text) /\ WordCount(s.text) > REAL_QUESTION_WORDS

question_counts(segments) ==
    [spk \in SpeakersOf(segments) |->
        Cardinality({i \in 1..Len(segments) :
                        segments[i].speaker = spk /\ IsRealQuestion(segments[i])})]

\* round(sum(v) / len(v), 1), in tenths of a word
avg_words_per_turn(segments) ==
    [spk \in SpeakersOf(segments) |->
        LET turns == {i \in 1..Len(segments) : segments[i].speaker = spk}
        IN  PyRound(SumSeq([i \in 1..Len(segments) |->
                               IF i \in turns THEN WordCount(segments[i].text) ELSE 0]) * 10,
                    Cardinality(turns))]

\* max(speakers_pct.values()) if speakers_pct else 0
max_dominance(pct) ==
    IF DOMAIN pct # {} THEN MaxOf({pct[spk] : spk \in DOMAIN pct}) ELSE 0

\* mutant: 2 points for every percent above 60, as the comment in the code says
dominance_penalty_two_points(dominance) ==
    IF dominance > TH_DOMINANCE THEN Rat((dominance - TH_DOMINANCE) * 20, 100) ELSE RatInt(0)

\* mutant: the test against 60 % is forgotten
dominance_penalty_unconditional(dominance) ==
    Rat((dominance - TH_DOMINANCE) * 25, 100)

\* (max_dominance - 60) * 2.5 when max_dominance > 60
dominance_penalty(dominance) ==
    IF dominance > TH_DOMINANCE THEN Rat((dominance - TH_DOMINANCE) * 25, 100) ELSE RatInt(0)

\* (avg_gap - 2.5) * 15 when avg_gap > 2.5; avg is in ticks
silence_penalty(avg) ==
    IF RatLess(RatInt(TH_AVG_GAP), avg)
    THEN Rat((avg.num - TH_AVG_GAP * avg.den) * 15, TicksPerSecond * avg.den)
    ELSE RatInt(0)

RECURSIVE SumValues(_)
\* sum(d.values())
SumValues(d) ==
    IF DOMAIN d = {} THEN 0
    ELSE LET k == CHOOSE x \in DOMAIN d : TRUE
         IN  d[k] + SumValues([x \in (DOMAIN d) \ {k} |-> d[x]])

\* mutant: 5 points for each speaker who interrupted, however often
interruption_penalty_per_speaker(counts) ==
    RatInt(Cardinality({spk \in DOMAIN counts : counts[spk] > 0}) * INTERRUPTION_POINTS)

\* total_interruptions * 5
interruption_penalty(counts) == RatInt(SumValues(counts) * INTERRUPTION_POINTS)

\* mutant: the cap at 100 is forgotten
final_score_uncapped(score, pct, avg, counts) ==
    PyInt(RatAdd(RatAdd(RatAdd(RatInt(score), dominance_penalty(max_dominance(pct))),
                        silence_penalty(avg)),
                 interruption_penalty(counts)))

\* mutant: round(final_score) instead of int(final_score)
final_score_rounded(score, pct, avg, counts) ==
    LET total == RatAdd(RatAdd(RatAdd(RatInt(score), dominance_penalty(max_dominance(pct))),
                               silence_penalty(avg)),
                        interruption_penalty(counts))
    IN  IF PyRound(total.num, total.den) < 100 THEN PyRound(total.num, total.den) ELSE 100

\* final_score = report["score"]; the three penalties are added; then
\* min(100, int(final_score))
final_score(score, pct, avg, counts) ==
    LET total == RatAdd(RatAdd(RatAdd(RatInt(score), dominance_penalty(max_dominance(pct))),
                               silence_penalty(avg)),
                        interruption_penalty(counts))
    IN  IF PyInt(total) < 100 THEN PyInt(total) ELSE 100

\* The engagement loop and averages of /analyze: '?' in s.text raises
\* TypeError when a text is None, otherwise the two per-speaker tables.
engagement_stats(segments) ==
    IF \E i \in 1..Len(segments) : segments[i].text = None
    THEN [raised |-> "TypeError"]
    ELSE [raised |-> "",
          questions_asked |-> question_counts(segments),
          avg_words_per_turn |-> avg_words_per_turn(segments)]

\* mutant: the scorer consumes the list it is given (segments.pop(0))
CallScorer_consuming(segments) ==
    [report |-> analyze_conversation(segments),
     segments |-> IF segments = <<>> THEN <<>> ELSE Tail(segments)]

\* meter.analyze_conversation(segments): what the call returns or raises, and
\* the list it was given as the call leaves it (the method assigns to no
\* attribute of a segment, of the list or of self)
CallScorer(segments) ==
    [report |-> analyze_conversation(segments), segments |-> segments]

Verdict(score) ==
    IF score < 20 THEN "Smooth Vibes"
    ELSE IF score < 40 THEN "Slightly Frictioned"
    ELSE IF score < 70 THEN "AWKWARD"
    ELSE "HOSTAGE SITUATION"

NoResponse == [status |-> 0]

\* The response of /analyze once the session is found and the names applied:
\* 500 when the analysis raises, otherwise the 200 payload (without the AI
\* insights and the speech timeline, which copy the transcript).
AnalysisResponse(segments) ==
    LET report == analyze_conversation(segments)
    IN  IF report.raised # ""
        THEN [status |-> 500, error |-> report.raised]
        ELSE LET pct == speakers_pct(segments)
                 counts == interruption_counts(segments)
                 gaps == SilenceGaps(report.moments)
                 final == final_score(report.score, pct, avg_gap(gaps), counts)
             IN  [status |-> 200,
                  score |-> final,
                  verdict |-> Verdict(final),
                  detailed_metrics |->
                     [score |-> final,
                      duration_total |-> PyRound(total_duration(segments), 2),
                      speaking_distribution |-> pct,
                      interruptions |-> counts,
                      silence_stats |->
                         [count |-> Len(gaps),
                          avg_duration |-> PyRound(avg_gap(gaps).num * 5, avg_gap(gaps).den),
                          total_duration |-> PyRound(GapTicks(gaps), 2)],
                      engagement_stats |->
                         [questions_asked |-> question_counts(segments),
                          avg_words_per_turn |-> avg_words_per_turn(segments)]],
                  pain_points |-> report.moments]

(***************************************************************************)
(* The HTML report (src/generate_viz.py): the merged timeline.             *)
(***************************************************************************)
RECURSIVE InsertByTime(_, _)
\* where a stable sort puts e among events already sorted: after every
\* event whose time is not greater
InsertByTime(sorted, e) ==
    IF sorted = <<>> THEN <<e>>
    ELSE IF Head(sorted).time <= e.time
    THEN <<Head(sorted)>> \o InsertByTime(Tail(sorted), e)
    ELSE <<e>> \o sorted

RECURSIVE SortByTime(_, _)
\* events.sort(key=lambda x: x["time"]): list.sort is stable
SortByTime(events, n) ==
    IF n = 0 THEN <<>> ELSE InsertByTime(SortByTime(events, n - 1), events[n])

\* report.json as main.py writes it: the transcript entries
Transcript(segments) ==
    [i \in 1..Len(segments) |->
        [start |-> segments[i].start, end |-> segments[i].end,
         speaker |-> segments[i].speaker, text |-> segments[i].text]]

\* mutant: the moments are appended before the transcript
Events_friction_first(transcript, moments) ==
    LET events ==
           [k \in 1..Len(moments) |->
               [type |-> "awkward", data |-> moments[k], time |-> moments[k].start]]
           \o [i \in 1..Len(transcript) |->
                  [type |-> "speech", data |-> transcript[i], time |-> transcript[i].start]]
    IN  SortByTime(events, Len(events))

\* the events of the timeline: the transcript entries, then the moments,
\* sorted by time
Events(transcript, moments) ==
    LET events ==
           [i \in 1..Len(transcript) |->
               [type |-> "speech", data |-> transcript[i], time |-> transcript[i].start]]
           \o [k \in 1..Len(moments) |->
                  [type |-> "awkward", data |-> moments[k], time |-> moments[k].start]]
    IN  SortByTime(events, Len(events))

(***************************************************************************)
(* Inputs: what the diarization provider returns.  A conversation is built *)
(* turn by turn from a gap to the previous turn and a duration, and stays  *)
(* sorted by start.  The families: long conversations, whose scores        *)
(* spread over the whole range; short ones whose gaps sit on the           *)
(* thresholds of the detector; short ones whose gaps and durations sit on  *)
(* the thresholds of the fast latch; conversations of zero-length turns;   *)
(* back-to-back turns of 1 s and 4 s; and conversations of one speaker in  *)
(* which a long turn overlaps the turns that follow it.                    *)
(***************************************************************************)
RawSpeakers == {"SPEAKER_00", "SPEAKER_01"}
Names == {"Ann"}
JobIds == {"job1"}

Yeah == <<"a">>                                       \* one word
ShortQuestion == <<"a", "?", " ">>                    \* one word, '?', trailing blank
TwoWords == <<"a", " ", "a">>                         \* two words, no '?'
LongQuestion == <<"a", " ", "a", " ", "a", " ", "a", "?", " ">>  \* four words, '?'

LongGaps == {-40, 31, 80}
LongDurations == {500}
LongTexts == {Yeah, LongQuestion}

BoundaryGaps == {-5, -4, 2, 3, 30, 31, 60, 61}
BoundaryTurn == {100}
BoundaryTexts == {ShortQuestion, TwoWords}

LatchGaps == {2, 3}
BoundaryDurations == {20, 100}
LatchTexts == {TwoWords}

ZeroGaps == {0}
ZeroDurations == {0}
ZeroTexts == {Yeah}

ScenarioGaps == {0}
ScenarioDurations == {20, 80}
ScenarioTexts == {TwoWords}

NestedGaps == {-90, -30, 31}
NestedDurations == {30, 100}
NestedTexts == {TwoWords}
NestedSpeakers == {"SPEAKER_00"}

Turn(start, dur, speaker, text) ==
    [start |-> start, end |-> start + dur, speaker |-> speaker, text |-> text]

InputFamilies ==
    {[gaps |-> LongGaps, durs |-> LongDurations, texts |-> LongTexts,
      speakers |-> RawSpeakers, max |-> MaxSegs],
     [gaps |-> BoundaryGaps, durs |-> BoundaryTurn, texts |-> BoundaryTexts,
      speakers |-> RawSpeakers, max |-> MaxBoundarySegs],
     [gaps |-> LatchGaps, durs |-> BoundaryDurations, texts |-> LatchTexts,
      speakers |-> RawSpeakers, max |-> MaxBoundarySegs],
     [gaps |-> ZeroGaps, durs |-> ZeroDurations, texts |-> ZeroTexts,
      speakers |-> RawSpeakers, max |-> MaxBoundarySegs],
     [gaps |-> ScenarioGaps, durs |-> ScenarioDurations, texts |-> ScenarioTexts,
      speakers |-> RawSpeakers, max |-> MaxScenarioSegs],
     [gaps |-> NestedGaps, durs |-> NestedDurations, texts |-> NestedTexts,
      speakers |-> NestedSpeakers, max |-> MaxSegs]}

\* what one turn is made from: the gap to the previous turn, its duration,
\* who speaks and what is said
TurnRecipes(fam) ==
    [gap : fam.gaps, dur : fam.durs, speaker : fam.speakers, text : fam.texts]

RECURSIVE BuildTurns(_, _)
\* the first n turns of a recipe; the first turn starts at 0
BuildTurns(recipe, n) ==
    IF n = 0 THEN <<>>
    ELSE LET before == BuildTurns(recipe, n - 1)
             start == IF n = 1 THEN 0 ELSE before[n - 1].end + recipe[n].gap
         IN  Append(before, Turn(start, recipe[n].dur, recipe[n].speaker, recipe[n].text))

SortedByStart(turns) == \A i \in 2..Len(turns) : turns[i - 1].start <= turns[i].start

\* the recipe describes a conversation the provider can return (the gap of
\* the first turn is not used: one value stands for all)
Returned(fam, recipe) ==
    /\ recipe # <<>> => recipe[1].gap = (CHOOSE g \in fam.gaps : TRUE)
    /\ SortedByStart(BuildTurns(recipe, Len(recipe)))

\* speaker_map: raw speaker id -> new name, blank to keep the id
SpeakerMaps == [RawSpeakers -> Names \cup {" "}]

(***************************************************************************)
(* State machine.                                                          *)
(***************************************************************************)
TtsIdle == [pc |-> "idle"]
NotRun == [status |-> "not run"]
NotCalled == [status |-> "not called"]

Init ==
    /\ program \in {"app", "main"}
    /\ SESSION_STORE = <<>>
    /\ response = NoResponse
    /\ cli = NotRun
    /\ scorer = NotCalled
    /\ provider = "not asked"
    /\ tts = TtsIdle

\* POST /upload: the pipeline's segments are stored under a fresh job id.
Upload ==
    /\ program = "app"
    /\ \E job_id \in JobIds \ DOMAIN SESSION_STORE, fam \in InputFamilies :
       \E n \in 0..fam.max :
       \E recipe \in [1..n -> TurnRecipes(fam)] :
       \* the upload is saved before the pipeline runs: the file is found
       \E outcome \in (Failures \ {"file not found"}) \cup {"succeeded"} :
          /\ Returned(fam, recipe)
          \* a failed diarization has no turns (one choice stands for all)
          /\ outcome \in Failures => n = 0 /\ fam.gaps = ZeroGaps
          /\ provider' = outcome
          /\ SESSION_STORE' = [j \in (DOMAIN SESSION_STORE) \cup {job_id} |->
                                  IF j = job_id
                                  THEN [segments |-> run(outcome, BuildTurns(recipe, n))]
                                  ELSE SESSION_STORE[j]]
    /\ UNCHANGED <<program, response, cli, scorer, tts>>

\* POST /analyze
Analyze ==
    /\ program = "app"
    /\ \E job_id \in JobIds, speaker_map \in SpeakerMaps :
          IF job_id \notin DOMAIN SESSION_STORE
          THEN /\ response' = [status |-> 404]
               /\ UNCHANGED SESSION_STORE
          ELSE LET segments == ApplyNames(SESSION_STORE[job_id].segments, speaker_map)
               IN  /\ SESSION_STORE' = [SESSION_STORE EXCEPT ![job_id].segments = segments]
                   /\ response' = AnalysisResponse(segments)
    /\ UNCHANGED <<program, cli, scorer, provider, tts>>

\* python main.py: run the pipeline, ask for names, rename, analyse, report.
\* An exception of the analysis is not caught: the run ends with a traceback
\* (cli.segments is the local variable segments when the run ended).
Main ==
    /\ program = "main"
    /\ cli = NotRun
    /\ \E fam \in InputFamilies, speaker_map \in [RawSpeakers -> Names \cup {""}] :
       \E n \in 0..fam.max :
       \E recipe \in [1..n -> TurnRecipes(fam)] :
       \E outcome \in Failures \cup {"succeeded"} :
          /\ Returned(fam, recipe)
          \* a failed diarization has no turns (one choice stands for all)
          /\ outcome \in Failures => n = 0 /\ fam.gaps = ZeroGaps
          /\ provider' = outcome
          /\ LET loaded == run(outcome, BuildTurns(recipe, n))
                 asked == {spk \in SpeakersOf(loaded) : spk \in RawSpeakers}
                 given == [spk \in {x \in asked : speaker_map[x] # ""} |->
                              speaker_map[spk]]
                 segments == ApplyNames(loaded, given)
                 report == analyze_conversation(segments)
             IN  cli' = IF report.raised # ""
                        THEN [status |-> "traceback", error |-> report.raised,
                              segments |-> segments]
                        ELSE [status |-> "done",
                              score |-> report.score,
                              label |-> report.label,
                              moments |-> report.moments,
                              segments |-> segments,
                              events |-> Events(Transcript(segments), report.moments)]
    /\ UNCHANGED <<program, SESSION_STORE, response, scorer, tts>>

Next == Upload \/ Analyze \/ Main

Spec == Init /\ [][Next]_vars

(***************************************************************************)
(* The scorer used as a library: a caller builds a list of Segment and     *)
(* calls AwkwardnessMeter().analyze_conversation on it, calls it again on  *)
(* the same list, and computes the engagement statistics of /analyze over  *)
(* it.  Besides the conversations of the provider the caller passes        *)
(* utterances whose text is None or empty, and utterances whose            *)
(* is_question it sets itself, whatever the text.                          *)
(***************************************************************************)
MissingGaps == {-5, 2, 31}
MissingDurations == {100}
MissingTexts == {None, <<>>, TwoWords}

MissingFamily ==
    [gaps |-> MissingGaps, durs |-> MissingDurations, texts |-> MissingTexts,
     speakers |-> RawSpeakers, max |-> MaxBoundarySegs]

FlaggedGaps == {31}
FlaggedDurations == {100}
FlaggedTexts == {ShortQuestion, LongQuestion, TwoWords}

FlaggedFamily ==
    [gaps |-> FlaggedGaps, durs |-> FlaggedDurations, texts |-> FlaggedTexts,
     speakers |-> RawSpeakers, max |-> MaxBoundarySegs]

\* how the caller sets is_question: as the pipeline derives it from the text,
\* or, for the utterances of FlaggedFamily, by passing True or False
CallerFlags(fam) == IF fam = FlaggedFamily THEN {"True", "False"} ELSE {"derived"}

\* Segment(start, end, speaker, text) with is_question left to its default
\* when there is no text, Segment(start, end, speaker, text, is_question)
\* when the caller passes the flag, and the pipeline's Segment otherwise
AsSegments(turns, flags) ==
    [i \in 1..Len(turns) |->
        IF turns[i].text = None
        THEN Segment(turns[i].start, turns[i].end, turns[i].speaker, None, FALSE)
        ELSE IF flags[i] = "derived"
        THEN Diarize(turns)[i]
        ELSE Segment(turns[i].start, turns[i].end, turns[i].speaker, turns[i].text,
                     flags[i] = "True")]

NotYet == [raised |-> "not yet"]

ScorerInit ==
    /\ program = "library"
    /\ SESSION_STORE = <<>>
    /\ response = NoResponse
    /\ cli = NotRun
    /\ scorer = NotCalled
    /\ provider = "not asked"
    /\ tts = TtsIdle

\* report = meter.analyze_conversation(segments)
Score ==
    /\ scorer = NotCalled
    /\ \E fam \in InputFamilies \cup {MissingFamily, FlaggedFamily} :
       \E n \in 0..fam.max :
       \E recipe \in [1..n -> TurnRecipes(fam)] :
       \E flags \in [1..n -> CallerFlags(fam)] :
          /\ Returned(fam, recipe)
          /\ LET segments == AsSegments(BuildTurns(recipe, n), flags)
                 call == CallScorer(segments)
             IN  scorer' = [status |-> "called",
                            input |-> segments,
                            segments |-> call.segments,
                            first |-> call.report,
                            second |-> NotYet,
                            engagement |-> NotYet]
    /\ UNCHANGED <<program, SESSION_STORE, response, cli, provider, tts>>

\* the same call once more, on the list as the first call left it
ScoreAgain ==
    /\ scorer.status = "called"
    /\ scorer.second = NotYet
    /\ LET call == CallScorer(scorer.segments)
       IN  scorer' = [scorer EXCEPT !.segments = call.segments, !.second = call.report]
    /\ UNCHANGED <<program, SESSION_STORE, response, cli, provider, tts>>

\* the engagement statistics over the same list
Engagement ==
    /\ scorer.status = "called"
    /\ scorer.engagement = NotYet
    /\ scorer' = [scorer EXCEPT !.engagement = engagement_stats(scorer.segments)]
    /\ UNCHANGED <<program, SESSION_STORE, response, cli, provider, tts>>

ScorerNext == Score \/ ScoreAgain \/ Engagement

ScorerSpec == ScorerInit /\ [][ScorerNext]_vars

(***************************************************************************)
(* The text-to-speech exchange (src/src/gradium_tts.py).                   *)
(* GradiumTTS.generate_audio_async opens a websocket, sends setup, waits   *)
(* for 'ready', sends the text and end_of_stream, collects audio messages  *)
(* until the service's end_of_stream, writes the chunks to output_path and *)
(* returns (True, None); every other way out returns (False, err).  One    *)
(* action per await of the coroutine; what the service sends, whether the  *)
(* connection raises and whether the disk accepts the write are inputs.    *)
(* output_path is named after the text (app.py lines 518-520), so a clip   *)
(* of an earlier call can be there already.  Leaving the 'async with'      *)
(* block closes the connection; closing is taken not to raise.             *)
(***************************************************************************)
\* what ws.recv() can give: a JSON object of one of the types the code tests,
\* of another type ("other"), an audio message without a decodable "audio"
\* field ("bad audio"), or something json.loads or data.get fails on
ServerMessages ==
    {"ready", "error", "audio", "bad audio", "end_of_stream", "other", "malformed"}

\* output_path before the call
Disk == {"absent", "earlier clip"}

\* open(output_path, "wb") and the writes: done, open raised, a write raised
DiskOutcomes == {"written", "open raised", "write raised"}

Event(by, type) == [by |-> by, type |-> type]

Pending == [success |-> FALSE, err |-> "pending"]

\* the call before its first await; audio_chunks is the length of the list
TtsStart(disk) ==
    [pc |-> "connect", trace |-> <<>>, audio_chunks |-> 0,
     before |-> disk, file |-> disk, returned |-> Pending]

\* return success, err
Return(t, success, err) ==
    [t EXCEPT !.pc = "returned", !.returned = [success |-> success, err |-> err]]

\* except Exception as e: return False, {"type": "exception", ...}
Except(t) == Return(t, FALSE, "exception")

Log(t, by, type) == [t EXCEPT !.trace = Append(@, Event(by, type))]

\* data.get("type")
MsgType(m) == IF m = "bad audio" THEN "audio" ELSE m

Received(t) == Cardinality({k \in 1..Len(t.trace) : t.trace[k].by = "server"})

\* one turn of the 'Wait for ready' loop, after resp = await ws.recv()
OnSetupMessage(t, m) ==
    IF m = "malformed" THEN Except(t)
    ELSE IF MsgType(m) = "ready" THEN [t EXCEPT !.pc = "send text"]
    ELSE IF MsgType(m) = "error" THEN Return(t, FALSE, "error message")
    ELSE t

\* mutant: the file is written whether or not a chunk arrived
Save_without_test(t, outcome) ==
    IF outcome = "written" THEN Return([t EXCEPT !.file = "this clip"], TRUE, "None")
    ELSE Except(t)

\* 5. Save to file: if audio_chunks: write and return True, None; else
\* return False, 'No audio received from TTS stream'
Save(t, outcome) ==
    IF t.audio_chunks > 0
    THEN IF outcome = "written"
         THEN Return([t EXCEPT !.file = "this clip"], TRUE, "None")
         ELSE IF outcome = "open raised" THEN Except(t)
         ELSE Except([t EXCEPT !.file = "partial clip"])
    ELSE Return(t, FALSE, "No audio received")

\* one turn of the 'Receive Audio' loop, after resp = await ws.recv()
OnStreamMessage(t, m, outcome) ==
    IF m = "malformed" THEN Except(t)
    ELSE IF m = "bad audio" THEN Except(t)
    ELSE IF MsgType(m) = "audio" THEN [t EXCEPT !.audio_chunks = @ + 1]
    ELSE IF MsgType(m) = "end_of_stream" THEN Save(t, outcome)
    ELSE IF MsgType(m) = "error" THEN Return(t, FALSE, "error message")
    ELSE t

TtsInit ==
    /\ program = "tts"
    /\ SESSION_STORE = <<>>
    /\ response = NoResponse
    /\ cli = NotRun
    /\ scorer = NotCalled
    /\ provider = "not asked"
    /\ \E disk \in Disk : tts = TtsStart(disk)

\* async with websockets.connect(...) as ws
Connect ==
    /\ tts.pc = "connect"
    /\ \/ tts' = [tts EXCEPT !.pc = "send setup"]
       \/ tts' = Except(Log(tts, "connection", "raised"))
    /\ UNCHANGED <<program, SESSION_STORE, response, cli, scorer, provider>>

\* await ws.send(json.dumps(setup_msg))
SendSetup ==
    /\ tts.pc = "send setup"
    /\ \/ tts' = [Log(tts, "client", "setup") EXCEPT !.pc = "await ready"]
       \/ tts' = Except(Log(tts, "connection", "raised"))
    /\ UNCHANGED <<program, SESSION_STORE, response, cli, scorer, provider>>

\* resp = await ws.recv() in the 'Wait for ready' loop
RecvSetup ==
    /\ tts.pc = "await ready"
    /\ Received(tts) < MaxTtsMessages
    /\ \/ \E m \in ServerMessages : tts' = OnSetupMessage(Log(tts, "server", m), m)
       \/ tts' = Except(Log(tts, "connection", "raised"))
    /\ UNCHANGED <<program, SESSION_STORE, response, cli, scorer, provider>>

\* await ws.send(json.dumps(text_msg))
SendText ==
    /\ tts.pc = "send text"
    /\ \/ tts' = [Log(tts, "client", "text") EXCEPT !.pc = "send end_of_stream"]
       \/ tts' = Except(Log(tts, "connection", "raised"))
    /\ UNCHANGED <<program, SESSION_STORE, response, cli, scorer, provider>>

\* await ws.send(json.dumps(eos_msg)); audio_chunks = []
SendEndOfStream ==
    /\ tts.pc = "send end_of_stream"
    /\ \/ tts' = [Log(tts, "client", "end_of_stream") EXCEPT
                     !.pc = "receive", !.audio_chunks = 0]
       \/ tts' = Except(Log(tts, "connection", "raised"))
    /\ UNCHANGED <<program, SESSION_STORE, response, cli, scorer, provider>>

\* resp = await ws.recv() in the 'Receive Audio' loop, and what follows the
\* loop when it breaks
RecvStream ==
    /\ tts.pc = "receive"
    /\ Received(tts) < MaxTtsMessages
    /\ \/ \E m \in ServerMessages : \E outcome \in DiskOutcomes :
             tts' = OnStreamMessage(Log(tts, "server", m), m, outcome)
       \/ tts' = Except(Log(tts, "connection", "raised"))
    /\ UNCHANGED <<program, SESSION_STORE, response, cli, scorer, provider>>

TtsNext == Connect \/ SendSetup \/ RecvSetup \/ SendText \/ SendEndOfStream \/ RecvStream

TtsSpec == TtsInit /\ [][TtsNext]_vars

(***************************************************************************)
(* Vocabulary of the properties.                                           *)
(***************************************************************************)
\* the segments of the session, as the last /analyze left them
Stored == IF "job1" \in DOMAIN SESSION_STORE THEN SESSION_STORE["job1"].segments ELSE <<>>

\* /analyze ran on the stored segments and answered 200, or ran at all
Reported == response.status = 200
Analysed == response.status \in {200, 500}

\* the command-line run printed its report, or ended at all
CliReported == cli.status = "done"
CliEnded == cli.status \in {"done", "traceback"}

\* the data-model invariants of an utterance sequence
ValidSequence(segments) ==
    /\ \A i \in 1..Len(segments) : segments[i].start < segments[i].end
    /\ \A i \in 2..Len(segments) : segments[i - 1].start <= segments[i].start

\* floor of n/d for d > 0
Floor(n, d) == IF n >= 0 THEN n \div d ELSE -(((-n) + d - 1) \div d)

Min(a, b) == IF a < b THEN a ELSE b

RECURSIVE Filter(_, _)
\* the subsequence of the moments whose label is in labels
Filter(moments, labels) ==
    IF moments = <<>> THEN <<>>
    ELSE (IF Head(moments).label \in labels THEN <<Head(moments)>> ELSE <<>>)
         \o Filter(Tail(moments), labels)

(***************************************************************************)
(* C1: for every non-empty utterance sequence that satisfies the           *)
(* data-model invariants, the final score of the report (the /analyze      *)
(* response and the command-line report) is an integer between 0 and 100.  *)
(***************************************************************************)
C1_ScoreInRange ==
    /\ (Reported /\ Stored # <<>> /\ ValidSequence(Stored))
          => response.score \in 0..100
    /\ (CliReported /\ cli.segments # <<>> /\ ValidSequence(cli.segments))
          => cli.score \in 0..100

\* a valid three-turn conversation whose penalties alone exceed 100
C1_Witness ==
    /\ Reported /\ Len(Stored) = 3 /\ ValidSequence(Stored)
    /\ response.pain_points # <<>>
    /\ response.score = 100
    /\ max_dominance(response.detailed_metrics.speaking_distribution) > 1000

(***************************************************************************)
(* C2: the label of every report (the /analyze response and the            *)
(* command-line report alike) follows the final score by the table         *)
(* < 20 Smooth Vibes, 20..39 Slightly Frictioned, 40..69 Awkward,          *)
(* >= 70 Hostage Situation.                                                *)
(***************************************************************************)
TableLabel(score) ==
    IF score < 20 THEN "Smooth Vibes"
    ELSE IF score < 40 THEN "Slightly Frictioned"
    ELSE IF score < 70 THEN "Awkward"
    ELSE "Hostage Situation"

\* the table row a label of the code stands for (case, decoration and the
\* older wording of the first and last row are not held against it)
TableRow(label) ==
    CASE label \in {"Smooth Vibes", "Smooth / In-Sync"} -> "Smooth Vibes"
      [] label = "Slightly Frictioned" -> "Slightly Frictioned"
      [] label \in {"AWKWARD", "Awkward"} -> "Awkward"
      [] label \in {"HOSTAGE SITUATION", "Excruciating"} -> "Hostage Situation"

C2_LabelFollowsTable ==
    /\ Reported => TableRow(response.verdict) = TableLabel(response.score)
    /\ CliReported => TableRow(cli.label) = TableLabel(cli.score)

(***************************************************************************)
(* C3: analysing an empty utterance sequence does not fail and yields      *)
(* score 0, label Smooth Vibes, no flagged moments and empty per-speaker   *)
(* metrics.                                                                *)
(***************************************************************************)
C3_EmptySequence ==
    /\ (Analysed /\ Stored = <<>>) =>
          /\ response.status = 200
          /\ response.score = 0
          /\ response.verdict = "Smooth Vibes"
          /\ response.pain_points = <<>>
          /\ DOMAIN response.detailed_metrics.speaking_distribution = {}
          /\ DOMAIN response.detailed_metrics.interruptions = {}
          /\ DOMAIN response.detailed_metrics.engagement_stats.questions_asked = {}
          /\ DOMAIN response.detailed_metrics.engagement_stats.avg_words_per_turn = {}
          /\ response.detailed_metrics.silence_stats.count = 0
    /\ (CliEnded /\ cli.segments = <<>>) =>
          /\ cli.status = "done"
          /\ cli.score = 0
          /\ cli.moments = <<>>

C3_Witness == Analysed /\ Stored = <<>> /\ "job1" \in DOMAIN SESSION_STORE

(***************************************************************************)
(* C4 as stated: a single utterance yields final score 0, label Smooth     *)
(* Vibes, no flagged moments and a speaking distribution of 100.0 for its  *)
(* speaker.                                                                *)
(***************************************************************************)
SingleUtterance == Len(Stored) = 1 /\ ValidSequence(Stored)

ZeroSpan(segments) ==
    segments # <<>> /\ segments[Len(segments)].end - segments[1].start = 0

C5_ZeroSpanCompletes ==
    /\ (Analysed /\ ZeroSpan(Stored)) =>
          /\ response.status = 200
          /\ response.detailed_metrics.duration_total = 10
    /\ (CliEnded /\ ZeroSpan(cli.segments)) => cli.status = "done"

(***************************************************************************)
(* C6 as stated: the final score is                                        *)
(* min(100, floor(base + dominance + silence + interruption penalty)) with *)
(* the un-truncated base score: one rounding down, of the whole sum.       *)
(***************************************************************************)
\* the three penalties of the stored conversation, as a fraction
Penalties(segments) ==
    RatAdd(RatAdd(dominance_penalty(max_dominance(speakers_pct(segments))),
                  silence_penalty(avg_gap(SilenceGaps(ScanFriction(segments, 1))))),
           interruption_penalty(interruption_counts(segments)))

UntruncatedBase(segments) ==
    global_score(ScanFriction(segments, 1), total_duration(segments))

FloorOf(r) == Floor(r.num, r.den)

C6_SingleFloor ==
    Reported =>
        response.score = Min(100, FloorOf(RatAdd(UntruncatedBase(Stored), Penalties(Stored))))

(***************************************************************************)
(* C6 amended: the final score is                                          *)
(* min(100, floor(floor(base) + dominance + silence + interruption         *)
(* penalty)): the base score is rounded down to an integer first (it is    *)
(* the score of the detector's report), the penalties are added to that    *)
(* integer, and the sum is rounded down again.                             *)
(***************************************************************************)
C6_FloorTwice ==
    Reported =>
        response.score =
           Min(100, FloorOf(RatAdd(RatInt(FloorOf(UntruncatedBase(Stored))),
                                   Penalties(Stored))))

\* the fractions of the base score and of the penalties add up to a point
C6_Witness ==
    /\ Reported
    /\ response.score < 100
    /\ response.score # FloorOf(RatAdd(UntruncatedBase(Stored), Penalties(Stored)))

(***************************************************************************)
(* C7: for each consecutive pair with gap = next.start - current.end       *)
(* strictly greater than 1.5 s the detector emits exactly one moment       *)
(* spanning [current.end, next.start]: Left Hanging with severity 1.0 if   *)
(* current.is_question (whatever the gap), otherwise Painful Silence with  *)
(* severity 0.9 if gap > 3.0 s, otherwise Awkward Silence with severity    *)
(* 0.6; a gap of exactly 1.5 s emits no silence moment.                    *)
(***************************************************************************)
GapLabels == {"Left Hanging (Vent)", "Painful Silence", "Awkward Silence"}

\* the moment the claim gives the pair (current, next_seg), gap > 1.5 s
C7_MomentOf(current, next_seg) ==
    [start |-> current.end,
     end |-> next_seg.start,
     severity |-> IF current.is_question THEN 10
                  ELSE IF next_seg.start - current.end > 60 THEN 9 ELSE 6,
     label |-> IF current.is_question THEN "Left Hanging (Vent)"
               ELSE IF next_seg.start - current.end > 60 THEN "Painful Silence"
               ELSE "Awkward Silence"]

RECURSIVE C7_Expected(_, _)
\* one moment for each pair from pair i on whose gap exceeds 1.5 s, in order
C7_Expected(segments, i) ==
    IF i >= Len(segments) THEN <<>>
    ELSE (IF segments[i + 1].start - segments[i].end > 30
          THEN <<C7_MomentOf(segments[i], segments[i + 1])>> ELSE <<>>)
         \o C7_Expected(segments, i + 1)

C7_SilenceMoments ==
    /\ Reported => Filter(response.pain_points, GapLabels) = C7_Expected(Stored, 1)
    /\ CliReported => Filter(cli.moments, GapLabels) = C7_Expected(cli.segments, 1)

\* a question followed by a gap of more than 3 s: Left Hanging, not Painful Silence
C7_Witness ==
    /\ Reported /\ Len(Stored) = 2
    /\ Stored[2].start - Stored[1].end = 61
    /\ Stored[1].is_question
    /\ response.pain_points =
          <<[start |-> Stored[1].end, end |-> Stored[2].start, severity |-> 10,
             label |-> "Left Hanging (Vent)"]>>

(***************************************************************************)
(* C8: for each consecutive pair, whatever the two speakers, with gap not  *)
(* greater than 1.5 s: exactly one Interruption moment with severity 0.7   *)
(* and span [next.start, current.end] is emitted if and only if            *)
(* gap < -0.2 s and next.text has more than one word; an overlap of        *)
(* exactly 0.2 s, or a single-word next utterance, emits no moment.        *)
(***************************************************************************)
RECURSIVE C8_Expected(_, _)
C8_Expected(segments, i) ==
    IF i >= Len(segments) THEN <<>>
    ELSE (IF /\ segments[i + 1].start - segments[i].end < -4
             /\ WordCount(segments[i + 1].text) > 1
          THEN <<[start |-> segments[i + 1].start, end |-> segments[i].end,
                  severity |-> 7, label |-> "Interruption"]>>
          ELSE <<>>)
         \o C8_Expected(segments, i + 1)

C8_Interruptions ==
    /\ Reported =>
          /\ Filter(response.pain_points, {"Interruption"}) = C8_Expected(Stored, 1)
          /\ Len(response.pain_points)
                = Len(C7_Expected(Stored, 1)) + Len(C8_Expected(Stored, 1))
    /\ CliReported =>
          /\ Filter(cli.moments, {"Interruption"}) = C8_Expected(cli.segments, 1)
          /\ Len(cli.moments)
                = Len(C7_Expected(cli.segments, 1)) + Len(C8_Expected(cli.segments, 1))

\* one speaker overlapping itself by more than 0.2 s with two words
C8_Witness ==
    /\ Reported /\ Len(Stored) = 2
    /\ Stored[1].speaker = Stored[2].speaker
    /\ Stored[2].start - Stored[1].end = -5
    /\ WordCount(Stored[2].text) = 2
    /\ response.pain_points =
          <<[start |-> Stored[2].start, end |-> Stored[1].end, severity |-> 7,
             label |-> "Interruption"]>>

(***************************************************************************)
(* C9: the interruption counter of the later speaker of a consecutive pair *)
(* is incremented by one if and only if the two speakers differ, the gap   *)
(* later.start - earlier.end is strictly less than 0.15 s and the later    *)
(* utterance lasts strictly more than 1.0 s; a gap of exactly 0.15 s, a    *)
(* duration of exactly 1.0 s or a pair of one speaker increments nothing.  *)
(***************************************************************************)
C9_Increments(segments, i) ==
    /\ segments[i].speaker # segments[i - 1].speaker
    /\ segments[i].start - segments[i - 1].end < 3
    /\ segments[i].end - segments[i].start > 20

C9_FastLatchCounts ==
    Reported =>
        /\ DOMAIN response.detailed_metrics.interruptions = SpeakersOf(Stored)
        /\ \A spk \in SpeakersOf(Stored) :
              response.detailed_metrics.interruptions[spk] =
                 Cardinality({i \in 2..Len(Stored) :
                                 Stored[i].speaker = spk /\ C9_Increments(Stored, i)})

\* a speaker change 0.1 s after the previous turn, by a turn of 5 s
C9_Witness ==
    /\ Reported /\ Len(Stored) = 2
    /\ Stored[2].start - Stored[1].end = 2
    /\ Stored[2].end - Stored[2].start = 100
    /\ Stored[1].speaker = "Ann" /\ Stored[2].speaker = "SPEAKER_01"
    /\ response.detailed_metrics.interruptions = [Ann |-> 0, SPEAKER_01 |-> 1]

(***************************************************************************)
(* C10: the base score is min(100, (W / total_duration) / 0.05 * 50), W    *)
(* being the sum over the flagged moments of (end - start) * severity; it  *)
(* is 0 when there are no moments and is raised to 20 whenever at least    *)
(* one moment exists and the computed value is below 20.                   *)
(***************************************************************************)
RECURSIVE C10_Weighted(_)
\* W, in tick-tenths (1/200 s)
C10_Weighted(moments) ==
    IF moments = <<>> THEN 0
    ELSE (Head(moments).end - Head(moments).start) * Head(moments).severity
         + C10_Weighted(Tail(moments))

\* the claimed base score as a fraction: (W/200) / (T/20) / 0.05 * 50 = 100 W / T
C10_Base(moments, segments) ==
    LET T == segments[Len(segments)].end - segments[1].start
        raw == Rat(100 * C10_Weighted(moments), T)
        capped == IF RatLess(RatInt(100), raw) THEN RatInt(100) ELSE raw
    IN  IF moments = <<>> THEN RatInt(0)
        ELSE IF RatLess(capped, RatInt(20)) THEN RatInt(20) ELSE capped

C10_BaseScore ==
    /\ (CliReported /\ cli.segments # <<>>) =>
          /\ cli.score = FloorOf(C10_Base(cli.moments, cli.segments))
          /\ RatEq(global_score(cli.moments, total_duration(cli.segments)),
                   C10_Base(cli.moments, cli.segments))
    /\ (Reported /\ Stored # <<>>) =>
          RatEq(UntruncatedBase(Stored), C10_Base(response.pain_points, Stored))

\* two moments of different severity, a base score between the floor and the cap
C10_Witness ==
    /\ CliReported /\ Len(cli.moments) = 2
    /\ cli.moments[1].severity # cli.moments[2].severity
    /\ cli.score > 20 /\ cli.score < 100

(***************************************************************************)
(* C11 as stated: the dominance penalty added to the score is              *)
(* (m - 60) * 2.5 when m > 60 and 0 when m <= 60, m being the largest      *)
(* per-speaker share: the speaker's summed utterance durations divided by  *)
(* the conversation span, times 100 (the quotient itself).                 *)
(***************************************************************************)
\* the speaker's summed durations over the span, times 100, as a fraction
C11_Share(segments, spk) ==
    LET spoken == SumSeq([i \in 1..Len(segments) |->
                             IF segments[i].speaker = spk
                             THEN segments[i].end - segments[i].start ELSE 0])
    IN  Rat(spoken * 100, segments[Len(segments)].end - segments[1].start)

\* (m - 60) * 2.5 when m > 60, else 0, for a fraction m
C11_Penalty(m) ==
    IF RatLess(RatInt(60), m) THEN Rat((m.num - 60 * m.den) * 5, m.den * 2) ELSE RatInt(0)

\* the largest of the fractions of a non-empty set
C11_Largest(S) == CHOOSE m \in S : \A other \in S : ~RatLess(m, other)

\* what the score is when the dominance penalty is C11_Penalty(m)
C11_ScoreWith(segments, m) ==
    Min(100, FloorOf(RatAdd(RatAdd(RatAdd(RatInt(FloorOf(UntruncatedBase(segments))),
                                          C11_Penalty(m)),
                                   silence_penalty(avg_gap(SilenceGaps(ScanFriction(segments, 1))))),
                            interruption_penalty(interruption_counts(segments)))))

C12_Silences(segments) ==
    Filter(C7_Expected(segments, 1) , {"Awkward Silence", "Painful Silence"})

RECURSIVE C12_Ticks(_)
C12_Ticks(moments) ==
    IF moments = <<>> THEN 0
    ELSE Head(moments).end - Head(moments).start + C12_Ticks(Tail(moments))

\* the average duration in ticks, as a fraction
C12_Avg(moments) ==
    IF moments = <<>> THEN RatInt(0) ELSE Rat(C12_Ticks(moments), Len(moments))

\* (avg - 2.5) * 15 with avg in ticks of 1/20 s: (avg - 50) * 15 / 20
C12_Penalty(avg) ==
    IF RatLess(RatInt(50), avg)
    THEN Rat((avg.num - 50 * avg.den) * 3, avg.den * 4)
    ELSE RatInt(0)

C13_FastLatches(segments) ==
    Cardinality({i \in 2..Len(segments) : C9_Increments(segments, i)})

C13_InterruptionPenalty ==
    Reported =>
        /\ SumValues(response.detailed_metrics.interruptions) = C13_FastLatches(Stored)
        /\ response.score =
              Min(100, FloorOf(RatAdd(RatAdd(RatAdd(
                  RatInt(IF Stored = <<>> THEN 0 ELSE FloorOf(UntruncatedBase(Stored))),
                  dominance_penalty(max_dominance(speakers_pct(Stored)))),
                  silence_penalty(avg_gap(SilenceGaps(ScanFriction(Stored, 1))))),
                  RatInt(5 * C13_FastLatches(Stored)))))

\* four back-to-back turns of 4 s, the speakers alternating: three fast
\* latches, no moment flagged, each speaker at 50 %: the score is 15
C13_Witness ==
    /\ Reported /\ Len(Stored) = 4
    /\ response.pain_points = <<>>
    /\ C13_FastLatches(Stored) = 3
    /\ response.detailed_metrics.speaking_distribution = [Ann |-> 500, SPEAKER_01 |-> 500]
    /\ response.score = 15

(***************************************************************************)
(* C14 as stated: lengthening a single gap between two consecutive         *)
(* utterances so that it is (or stays) greater than 1.5 s, every other     *)
(* duration, gap, text and is_question flag held fixed, never decreases    *)
(* the base score.                                                         *)
(***************************************************************************)
\* the gaps a gap is lengthened to
C14_LongerGaps == {31, 61, 80, 200}

\* the sequence with the gap after utterance i set to gap: the utterances
\* after i move together, keeping their durations and the gaps between them
C14_Lengthen(segments, i, gap) ==
    LET shift == gap - (segments[i + 1].start - segments[i].end)
    IN  [k \in 1..Len(segments) |->
            IF k <= i THEN segments[k]
            ELSE [segments[k] EXCEPT !.start = @ + shift, !.end = @ + shift]]

\* the scorer returned a report for a valid sequence
C14_Scored == scorer.status = "called" /\ ValidSequence(scorer.input) /\ scorer.first.raised = ""

C14_Monotone ==
    C14_Scored =>
        \A i \in 1..(Len(scorer.input) - 1) : \A gap \in C14_LongerGaps :
            gap > scorer.input[i + 1].start - scorer.input[i].end
            => analyze_conversation(C14_Lengthen(scorer.input, i, gap)).score
                  >= scorer.first.score

(***************************************************************************)
(* C14 amended: lengthening a single gap between two consecutive           *)
(* utterances that do not overlap (gap >= 0) so that it is (or stays)      *)
(* greater than 1.5 s, all else held fixed, never decreases the base       *)
(* score.  (Lengthening an overlap into a silence removes what the         *)
(* overlap weighed and can lower the score.)                               *)
(***************************************************************************)
C14_MonotoneFromGap ==
    C14_Scored =>
        \A i \in 1..(Len(scorer.input) - 1) : \A gap \in C14_LongerGaps :
            (/\ scorer.input[i + 1].start - scorer.input[i].end >= 0
             /\ gap > scorer.input[i + 1].start - scorer.input[i].end)
            => LET longer == C14_Lengthen(scorer.input, i, gap)
               IN  /\ ~RatLess(global_score(ScanFriction(longer, 1), total_duration(longer)),
                               global_score(ScanFriction(scorer.input, 1),
                                            total_duration(scorer.input)))
                   /\ analyze_conversation(longer).score >= scorer.first.score

\* a conversation with a silence of 1.55 s, scored between the floor and the
\* cap, whose silence can be lengthened
C14_Witness ==
    /\ C14_Scored /\ Len(scorer.input) = 3
    /\ scorer.input[2].start - scorer.input[1].end = 31
    /\ scorer.first.score > 20 /\ scorer.first.score < 100
    /\ analyze_conversation(C14_Lengthen(scorer.input, 1, 80)).score > scorer.first.score

C16_RenamingIsPure ==
    \A job_id \in DOMAIN SESSION_STORE :
        \A i \in 1..Len(SESSION_STORE[job_id].segments) :
            SESSION_STORE[job_id].segments[i].speaker \in RawSpeakers

(***************************************************************************)
(* C17: the list of flagged moments of every report, and the pain-points   *)
(* list built from it, is in non-decreasing order of moment start time for *)
(* every utterance sequence that is sorted by start with start < end for   *)
(* each utterance, including sequences in which one long utterance         *)
(* overlaps several later ones.                                            *)
(***************************************************************************)
C17_Ordered(moments) ==
    \A k \in 2..Len(moments) : moments[k - 1].start <= moments[k].start

C17_MomentsOrdered ==
    /\ (Reported /\ ValidSequence(Stored)) => C17_Ordered(response.pain_points)
    /\ (CliReported /\ ValidSequence(cli.segments)) => C17_Ordered(cli.moments)

\* the first utterance runs over the two that follow it; two moments
C17_Witness ==
    /\ Reported /\ Len(Stored) = 3
    /\ Stored[1].end > Stored[3].start
    /\ Len(response.pain_points) = 2
    /\ response.pain_points[1].label = "Interruption"
    /\ response.pain_points[1].end > response.pain_points[2].end

(***************************************************************************)
(* C18: the merged timeline contains every utterance and every flagged     *)
(* moment exactly once, is sorted by non-decreasing start time, and on     *)
(* equal start times places a speech event before a friction event while   *)
(* keeping the input order among events of the same type.                  *)
(***************************************************************************)
RECURSIVE C18_DataOf(_, _)
\* the data of the events of one type, in timeline order
C18_DataOf(events, type) ==
    IF events = <<>> THEN <<>>
    ELSE (IF Head(events).type = type THEN <<Head(events).data>> ELSE <<>>)
         \o C18_DataOf(Tail(events), type)

\* the utterances, or the moments, in the order the timeline should keep
\* among equal start times: sorted by start, the input order on ties
C18_ByStart(items) ==
    LET before(i, j) == items[i].start < items[j].start
                        \/ (items[i].start = items[j].start /\ i < j)
        place(i) == 1 + Cardinality({j \in 1..Len(items) : before(j, i)})
    IN  [k \in 1..Len(items) |-> items[CHOOSE i \in 1..Len(items) : place(i) = k]]

C18_MergedTimeline ==
    CliReported =>
        /\ Len(cli.events) = Len(cli.segments) + Len(cli.moments)
        /\ C18_DataOf(cli.events, "speech")
              = C18_ByStart([i \in 1..Len(cli.segments) |->
                                [start |-> cli.segments[i].start, end |-> cli.segments[i].end,
                                 speaker |-> cli.segments[i].speaker,
                                 text |-> cli.segments[i].text]])
        /\ C18_DataOf(cli.events, "awkward") = C18_ByStart(cli.moments)
        /\ \A k \in 2..Len(cli.events) :
              /\ cli.events[k - 1].data.start <= cli.events[k].data.start
              /\ cli.events[k - 1].data.start = cli.events[k].data.start
                    => ~(cli.events[k - 1].type = "awkward" /\ cli.events[k].type = "speech")

\* two utterances and the two Interruption moments they bring all start at 0.5 s
C18_Witness ==
    /\ CliReported /\ Len(cli.segments) = 3 /\ Len(cli.moments) = 2
    /\ cli.segments[2].start = cli.segments[3].start
    /\ cli.segments[2] # cli.segments[3]
    /\ cli.moments[1].start = cli.segments[2].start
    /\ cli.moments[2].start = cli.segments[2].start
    /\ cli.moments[1] # cli.moments[2]

(***************************************************************************)
(* C19: an utterance whose text is missing (None) or empty is treated as   *)
(* having zero words and as not being a question in the friction detector  *)
(* and in the engagement statistics, and the analysis completes without    *)
(* raising for any sequence that contains such utterances.                 *)
(***************************************************************************)
C19_HasMissing(segments) ==
    \E i \in 1..Len(segments) : segments[i].text \in {None, <<>>}

\* the same utterances with a text of zero words where there is none
C19_ZeroWords(segments) ==
    [i \in 1..Len(segments) |->
        IF segments[i].text = None THEN [segments[i] EXCEPT !.text = <<>>]
        ELSE segments[i]]

C19_MissingText ==
    (scorer.status = "called" /\ C19_HasMissing(scorer.input)) =>
        LET zero == C19_ZeroWords(scorer.input)
            turns(spk) == {i \in 1..Len(zero) : zero[i].speaker = spk}
        IN  /\ scorer.first.raised = ""
            /\ Filter(scorer.first.moments, GapLabels) = C7_Expected(zero, 1)
            /\ Filter(scorer.first.moments, {"Interruption"}) = C8_Expected(zero, 1)
            /\ scorer.engagement # NotYet =>
                  /\ scorer.engagement.raised = ""
                  /\ \A spk \in SpeakersOf(zero) :
                        /\ scorer.engagement.questions_asked[spk] =
                              Cardinality({i \in turns(spk) :
                                              /\ \E k \in 1..Len(zero[i].text) :
                                                    zero[i].text[k] = "?"
                                              /\ WordCount(zero[i].text) > 3})
                        /\ scorer.engagement.avg_words_per_turn[spk] =
                              PyRound(10 * SumSeq([i \in 1..Len(zero) |->
                                                      IF i \in turns(spk)
                                                      THEN WordCount(zero[i].text) ELSE 0]),
                                      Cardinality(turns(spk)))

(***************************************************************************)
(* C20: a diarization failure (no API key, upload or job creation          *)
(* rejected, job ending failed or canceled, or any exception) reaches the  *)
(* caller of the pipeline as an error result that is distinguishable from  *)
(* a successful diarization that found zero utterances.                    *)
(***************************************************************************)
\* what the caller of pipeline.run holds when the diarization succeeded and
\* found no utterance: the empty list
C20_NoUtterances == <<>>

C20_FailureIsDistinct ==
    provider \in Failures =>
        /\ "job1" \in DOMAIN SESSION_STORE => Stored # C20_NoUtterances
        /\ CliEnded => cli.segments # C20_NoUtterances

(***************************************************************************)
(* C21: the span of every Interruption moment is the region in which the   *)
(* two utterances of its pair overlap: it lies within the interrupted      *)
(* utterance's [start, end] and within the interrupting utterance's        *)
(* [start, end], so the moment never ends after the interrupting utterance *)
(* ends.  analyze_conversation gives the moment the span                   *)
(* [next_seg.start, current.end] (analysis.py lines 52-54) without         *)
(* comparing current.end with next_seg.end: when the interrupted utterance *)
(* runs on past the end of the interrupting one, the moment ends after the *)
(* interrupting utterance does.                                            *)
(***************************************************************************)
\* the span [a, b] lies within the utterance seg
C21_Within(a, b, seg) == seg.start <= a /\ a <= b /\ b <= seg.end

\* every Interruption moment belongs to an adjacent pair of the sequence
\* and lies within both utterances of that pair
C21_InOverlap(segments, moments) ==
    \A k \in 1..Len(moments) :
        moments[k].label = "Interruption" =>
            \E i \in 1..(Len(segments) - 1) :
                /\ moments[k].start = segments[i + 1].start
                /\ moments[k].end = segments[i].end
                /\ C21_Within(moments[k].start, moments[k].end, segments[i])
                /\ C21_Within(moments[k].start, moments[k].end, segments[i + 1])

C21_InterruptionSpanIsOverlap ==
    /\ (Reported /\ ValidSequence(Stored)) =>
          C21_InOverlap(Stored, response.pain_points)
    /\ (CliReported /\ ValidSequence(cli.segments)) =>
          C21_InOverlap(cli.segments, cli.moments)

(***************************************************************************)
(* C22: a speaker's engagement question count equals the number of that    *)
(* speaker's utterances whose text contains '?' and has strictly more than *)
(* 3 whitespace-separated words, whatever their is_question flag; and the  *)
(* detector's Left Hanging classification depends only on the is_question  *)
(* flag, whatever the text: a gap above 1.5 s is Left Hanging exactly when  *)
(* the utterance before it has is_question true, so an utterance with      *)
(* is_question true and three words or fewer causes Left Hanging without   *)
(* being counted as a question asked.                                      *)
(***************************************************************************)
\* the utterances of a speaker that pass the "real question" filter
C22_RealQuestions(segments, spk) ==
    {i \in 1..Len(segments) :
        /\ segments[i].speaker = spk
        /\ \E k \in 1..Len(segments[i].text) : segments[i].text[k] = "?"
        /\ WordCount(segments[i].text) > 3}

\* the adjacent pairs separated by more than 1.5 s
C22_LongGaps(segments) ==
    {i \in 1..(Len(segments) - 1) : segments[i + 1].start - segments[i].end > 30}

C22_IsLeftHanging(moments, current, next_seg) ==
    \E k \in 1..Len(moments) :
        /\ moments[k].label = "Left Hanging (Vent)"
        /\ moments[k].start = current.end
        /\ moments[k].end = next_seg.start

C22_QuestionSignals ==
    (/\ scorer.status = "called"
     /\ scorer.first.raised = ""
     /\ scorer.engagement.raised = ""
     /\ ValidSequence(scorer.input)) =>
        /\ DOMAIN scorer.engagement.questions_asked
              = {scorer.input[i].speaker : i \in 1..Len(scorer.input)}
        /\ \A spk \in DOMAIN scorer.engagement.questions_asked :
              scorer.engagement.questions_asked[spk]
                 = Cardinality(C22_RealQuestions(scorer.input, spk))
        /\ \A i \in C22_LongGaps(scorer.input) :
              C22_IsLeftHanging(scorer.first.moments, scorer.input[i], scorer.input[i + 1])
                 <=> scorer.input[i].is_question
        /\ Len(Filter(scorer.first.moments, {"Left Hanging (Vent)"}))
              = Cardinality({i \in C22_LongGaps(scorer.input) : scorer.input[i].is_question})

\* a one-word utterance flagged as a question is left hanging and not
\* counted; the four-word question that follows it is not flagged and counted
C22_Witness ==
    /\ scorer.status = "called"
    /\ scorer.engagement.raised = ""
    /\ Len(scorer.input) = 2
    /\ scorer.input[1].speaker # scorer.input[2].speaker
    /\ scorer.input[1].is_question
    /\ WordCount(scorer.input[1].text) <= 3
    /\ ~scorer.input[2].is_question
    /\ WordCount(scorer.input[2].text) > 3
    /\ scorer.first.raised = ""
    /\ scorer.first.moments[1].label = "Left Hanging (Vent)"
    /\ scorer.engagement.questions_asked[scorer.input[1].speaker] = 0
    /\ scorer.engagement.questions_asked[scorer.input[2].speaker] = 1

(***************************************************************************)
(* C23: in the text-to-speech websocket exchange the client sends setup    *)
(* first, sends the text and then end_of_stream only after it received a   *)
(* 'ready' message, and reports success only when at least one audio       *)
(* message arrived before the service's end_of_stream; when an error       *)
(* message arrives at either stage, when the stream ends with no audio, or *)
(* when the connection raises, it reports failure and writes no output     *)
(* file.                                                                   *)
(***************************************************************************)
C23_Is(k, by, type) == tts.trace[k].by = by /\ tts.trace[k].type = type

\* the messages of the client, in the order sent
C23_Sent == SelectSeq(tts.trace, LAMBDA e : e.by = "client")

C23_Failed ==
    /\ tts.pc = "returned"
    /\ ~tts.returned.success
    /\ tts.file = tts.before

C23_Last == Len(tts.trace)

\* the stream stage began (the client sent end_of_stream) and no audio
\* message arrived since
C23_NoAudioInStream ==
    \E c \in 1..C23_Last :
        /\ C23_Is(c, "client", "end_of_stream")
        /\ \A a \in (c + 1)..C23_Last : ~C23_Is(a, "server", "audio")

C23_Exchange ==
    /\ \A n \in 1..Len(C23_Sent) :
          C23_Sent[n].type = <<"setup", "text", "end_of_stream">>[n]
    /\ Len(C23_Sent) <= 3
    /\ \A k \in 1..C23_Last :
          /\ C23_Is(k, "client", "text") =>
                \E r \in 1..(k - 1) : C23_Is(r, "server", "ready")
          /\ C23_Is(k, "client", "end_of_stream") =>
                /\ k > 1 /\ C23_Is(k - 1, "client", "text")
                /\ \E r \in 1..(k - 1) : C23_Is(r, "server", "ready")
    /\ (tts.pc = "returned" /\ tts.returned.success) =>
          /\ C23_Last > 0 /\ C23_Is(C23_Last, "server", "end_of_stream")
          /\ \E a \in 1..(C23_Last - 1) : C23_Is(a, "server", "audio")
          /\ tts.file = "this clip"
    /\ (C23_Last > 0 /\ C23_Is(C23_Last, "server", "error")) => C23_Failed
    /\ (C23_Last > 0 /\ C23_Is(C23_Last, "server", "end_of_stream")
          /\ C23_NoAudioInStream) => C23_Failed
    /\ (C23_Last > 0 /\ C23_Is(C23_Last, "connection", "raised")) => C23_Failed

\* the service answers 'ready' after another message, sends one audio
\* message and ends the stream: the clip replaces the earlier one
C23_Witness ==
    /\ tts.pc = "returned"
    /\ tts.returned.success
    /\ tts.before = "earlier clip"
    /\ tts.file = "this clip"
    /\ tts.trace = <<Event("client", "setup"), Event("server", "other"),
                     Event("server", "ready"), Event("client", "text"),
                     Event("client", "end_of_stream"), Event("server", "audio"),
                     Event("server", "end_of_stream")>>

====
